---- MODULE Spec2Model ----
(***************************************************************************)
(* Model of cash_flow_dashboard.py: the Streamlit script's main(),         *)
(* process_uploaded_file() and display_dashboard(), together with the      *)
(* excel_reader operations they call (CashFlowReader, get_excel_sheets,    *)
(* prepare_data_with_mapping), which are described by the design spec.     *)
(*                                                                         *)
(* Spec     : one script run of main() -> process_uploaded_file().         *)
(* CoreSpec : clean_and_prepare_data -> display_dashboard on a normalized  *)
(*            transaction table (the cleaner / aggregator contract).       *)
(***************************************************************************)
EXTENDS Integers, Sequences, FiniteSets

VARIABLES pc, columns, column_mapping, selection,
          project_col, date_col, cash_in_cols, cash_out_cols,
          error, result, data, outcome,
          stage, transactions, reader_data, insights, project_summary,
          monthly_summary, rendered

pvars == <<pc, columns, column_mapping, selection,
           project_col, date_col, cash_in_cols, cash_out_cols,
           error, result, data, outcome>>

cvars == <<stage, transactions, reader_data, insights, project_summary,
           monthly_summary, rendered>>

vars == <<pvars, cvars>>

-----------------------------------------------------------------------------
(* Bounds *)
MaxCand == 1      \* longest project / date candidate list the scanner returns
MaxCashCand == 1  \* longest cash-in / cash-out candidate list
MaxRows == 3      \* most rows of a normalized transaction table

-----------------------------------------------------------------------------
(* Python values and helpers *)
None == "None"

Range(s) == {s[i] : i \in 1..Len(s)}

\* sequences over S without repetition, of length at most n
InjSeqs(S, n) ==
    {s \in UNION {[1..k -> S] : k \in 0..n} :
        \A i, j \in 1..Len(s) : i # j => s[i] # s[j]}

\* list.index(x): zero-based position of the first x, -1 standing for ValueError
ListIndex(s, x) ==
    IF x \in Range(s) THEN (CHOOSE i \in 1..Len(s) : s[i] = x /\ \A j \in 1..(i - 1) : s[j] # x) - 1
    ELSE -1

\* `not x` for the value of a selectbox (None or a header)
Falsy(x) == x = None \/ x = ""

\* `not xs` for the value of a multiselect (a list)
FalsyList(xs) == Len(xs) = 0

-----------------------------------------------------------------------------
(* The uploaded workbook *)
\* get_excel_sheets: the workbook's sheet names, in order
SheetLists == {<<>>, <<"Sheet1">>, <<"Sheet1", "Sheet2">>}

\* list(reader.data.columns) of the loaded sheet
Columns == <<"Project", "Date", "Amount">>

\* reader.analyze_structure(): ranked candidate headers per role.  Candidates
\* are headers of the table; a date candidate is not a project candidate; a
\* header may be a candidate for both cash roles.
ScannerOutputs(cols) ==
    {m \in [project_columns : InjSeqs(Range(cols), MaxCand),
            date_columns : InjSeqs(Range(cols), MaxCand),
            cash_in_columns : InjSeqs(Range(cols), MaxCashCand),
            cash_out_columns : InjSeqs(Range(cols), MaxCashCand)] :
        Range(m.project_columns) \cap Range(m.date_columns) = {}}

EmptyMapping == [project_columns |-> <<>>, date_columns |-> <<>>,
                 cash_in_columns |-> <<>>, cash_out_columns |-> <<>>]

-----------------------------------------------------------------------------
(* Streamlit widgets: the value is the default until the user changes it *)
Untouched(v) == [touched |-> FALSE, value |-> v]
Picked(v) == [touched |-> TRUE, value |-> v]

\* a selectbox whose value stays at the option the index= argument names
SelectBoxDefault(options, index, touch) == options[index + 1]

\* st.selectbox(options, index): options[index] unless the user picked one
SelectBox(options, index, touch) ==
    IF touch.touched THEN touch.value ELSE options[index + 1]

\* st.multiselect(options, default): default unless the user picked a list
MultiSelect(options, default, touch) ==
    IF touch.touched THEN touch.value ELSE default

\* index= argument of the project / date selectbox
DefaultIndex(cols, candidates) ==
    IF candidates = <<>> THEN 0 ELSE ListIndex(cols, candidates[1]) + 1

\* the lists a user picks in a multiselect: nothing, or one header
PickLists(cols) == {<<>>} \cup {<<h>> : h \in Range(cols)}

\* what the user can do with the four widgets
Selections(cols) ==
    [project : {Untouched(None)} \cup {Picked(h) : h \in {None} \cup Range(cols)},
     date    : {Untouched(None)} \cup {Picked(h) : h \in {None} \cup Range(cols)},
     cash_in : {Untouched(<<>>)} \cup {Picked(s) : s \in PickLists(cols)},
     cash_out: {Untouched(<<>>)} \cup {Picked(s) : s \in PickLists(cols)}]

NoSelection == [project |-> Untouched(None), date |-> Untouched(None),
                cash_in |-> Untouched(<<>>), cash_out |-> Untouched(<<>>)]

-----------------------------------------------------------------------------
(* Return values of process_uploaded_file *)
NotReturned == [tuple |-> FALSE, data |-> "unset", mapping |-> "unset"]
BareNone    == [tuple |-> FALSE, data |-> None, mapping |-> None]
NonePair    == [tuple |-> TRUE, data |-> None, mapping |-> None]
DataPair    == [tuple |-> TRUE, data |-> "final_df", mapping |-> "column_mapping"]

\* names bound when line 378 is evaluated: locals of process_uploaded_file
\* and the module's globals
LocalNames == {"uploaded_file", "f", "sheets", "selected_sheet", "reader",
               "column_mapping", "col1", "col2", "col3", "col4", "formula_df",
               "project_col", "date_col", "cash_in_cols", "cash_out_cols"}
GlobalNames == {"st", "pd", "px", "go", "datetime", "np", "CashFlowReader",
                "get_excel_sheets", "smart_column_mapping",
                "prepare_data_with_mapping", "main", "display_dashboard",
                "process_uploaded_file", "show_instructions"}
NameBound(n) == n \in LocalNames \cup GlobalNames

\* the names the call at lines 378-380 evaluates, in order
PrepareCallNames == <<"prepare_data_with_mapping", "df", "column_mapping",
                      "project_col", "date_col", "cash_in_cols", "cash_out_cols">>


-----------------------------------------------------------------------------
(* Normalized transactions (design spec, section 3) *)

\* calendar dates as <<year-month bucket, day of month>>
Dates == {<<1, 1>>, <<1, 2>>, <<2, 1>>}
Projects == {"A", "B"}
CashInAmounts == {0, 2}
CashOutAmounts == {0, 1}

DateLess(a, b) == a[1] < b[1] \/ (a[1] = b[1] /\ a[2] < b[2])
YearMonth(d) == d[1]

\* a Transaction row; Index is the row's position in the raw table
TransactionRows == [Project : Projects, Date : Dates,
                    Cash_In : CashInAmounts, Cash_Out : CashOutAmounts]

TransactionTables ==
    {[i \in 1..Len(t) |->
        [Index |-> i, Project |-> t[i].Project, Date |-> t[i].Date,
         Cash_In |-> t[i].Cash_In, Cash_Out |-> t[i].Cash_Out]] :
        t \in UNION {[1..k -> TransactionRows] : k \in 0..MaxRows}}

RECURSIVE SumSeq(_)
SumSeq(s) == IF s = <<>> THEN 0 ELSE Head(s) + SumSeq(Tail(s))

Column(rows, f) == [i \in 1..Len(rows) |-> rows[i][f]]

-----------------------------------------------------------------------------
(* Transaction Cleaner: reader.clean_and_prepare_data (design spec, 4.5) *)

IsNoOp(r) == r.Cash_In = 0 /\ r.Cash_Out = 0

DropNoOp(rows) == SelectSeq(rows, LAMBDA r : ~IsNoOp(r))

WithNet(rows) ==
    [i \in 1..Len(rows) |->
        [Index |-> rows[i].Index, Project |-> rows[i].Project, Date |-> rows[i].Date,
         Cash_In |-> rows[i].Cash_In, Cash_Out |-> rows[i].Cash_Out,
         Net_Cash_Flow |-> rows[i].Cash_In - rows[i].Cash_Out]]

\* insert r behind every row whose Date is not later than r's
RECURSIVE InsertByDate(_, _)
InsertByDate(s, r) ==
    IF s = <<>> THEN <<r>>
    ELSE IF DateLess(r.Date, Head(s).Date) THEN <<r>> \o s
    ELSE <<Head(s)>> \o InsertByDate(Tail(s), r)

\* stable sort by Date ascending
RECURSIVE SortByDate(_)
SortByDate(rows) ==
    IF rows = <<>> THEN <<>>
    ELSE InsertByDate(SortByDate(SubSeq(rows, 1, Len(rows) - 1)), rows[Len(rows)])

\* a running total restarted for every project
RunningTotalPerProject(rows, acc) ==
    [i \in 1..Len(rows) |->
        [Index |-> rows[i].Index, Project |-> rows[i].Project, Date |-> rows[i].Date,
         Cash_In |-> rows[i].Cash_In, Cash_Out |-> rows[i].Cash_Out,
         Net_Cash_Flow |-> rows[i].Net_Cash_Flow,
         Cumulative_Cash_Flow |->
            SumSeq(Column(SelectSeq(SubSeq(rows, 1, i),
                                    LAMBDA r : r.Project = rows[i].Project),
                          "Net_Cash_Flow"))]]

\* running total of Net_Cash_Flow over the whole table
RECURSIVE RunningTotal(_, _)
RunningTotal(rows, acc) ==
    IF rows = <<>> THEN <<>>
    ELSE LET r == Head(rows)
             c == acc + r.Net_Cash_Flow
         IN  <<[Index |-> r.Index, Project |-> r.Project, Date |-> r.Date,
                Cash_In |-> r.Cash_In, Cash_Out |-> r.Cash_Out,
                Net_Cash_Flow |-> r.Net_Cash_Flow, Cumulative_Cash_Flow |-> c]>>
             \o RunningTotal(Tail(rows), c)

CleanAndPrepareData(rows) == RunningTotal(SortByDate(WithNet(DropNoOp(rows))), 0)

-----------------------------------------------------------------------------
(* Aggregator: get_project_summary, get_monthly_summary, get_insights       *)
(* (design spec, 4.6)                                                       *)

\* distinct values of a column, in order of first appearance
RECURSIVE FirstAppearance(_)
FirstAppearance(s) ==
    IF s = <<>> THEN <<>>
    ELSE LET front == FirstAppearance(SubSeq(s, 1, Len(s) - 1))
             x == s[Len(s)]
         IN  IF x \in Range(front) THEN front ELSE Append(front, x)

\* the elements of a finite set of integers, ascending
RECURSIVE Ascending(_)
Ascending(S) ==
    IF S = {} THEN <<>>
    ELSE LET m == CHOOSE x \in S : \A y \in S : x <= y
         IN  <<m>> \o Ascending(S \ {m})

\* a project summary that keeps each project's last row instead of its sum
GetProjectSummaryLast(rows) ==
    LET order == FirstAppearance(Column(rows, "Project"))
        of(p) == SelectSeq(rows, LAMBDA r : r.Project = p)
    IN  [i \in 1..Len(order) |->
            LET last == of(order[i])[Len(of(order[i]))]
            IN  [Project |-> order[i], Total_Cash_In |-> last.Cash_In,
                 Total_Cash_Out |-> last.Cash_Out,
                 Total_Net_Cash_Flow |-> last.Cash_In - last.Cash_Out]]

GetProjectSummary(rows) ==
    LET order == FirstAppearance(Column(rows, "Project"))
        of(p) == SelectSeq(rows, LAMBDA r : r.Project = p)
    IN  [i \in 1..Len(order) |->
            LET cin == SumSeq(Column(of(order[i]), "Cash_In"))
                cout == SumSeq(Column(of(order[i]), "Cash_Out"))
            IN  [Project |-> order[i], Total_Cash_In |-> cin,
                 Total_Cash_Out |-> cout, Total_Net_Cash_Flow |-> cin - cout]]

GetMonthlySummary(rows) ==
    LET months == Ascending({YearMonth(rows[i].Date) : i \in 1..Len(rows)})
        of(m) == SelectSeq(rows, LAMBDA r : YearMonth(r.Date) = m)
    IN  [i \in 1..Len(months) |->
            [Year_Month |-> months[i],
             Cash_In |-> SumSeq(Column(of(months[i]), "Cash_In")),
             Cash_Out |-> SumSeq(Column(of(months[i]), "Cash_Out")),
             Net_Cash_Flow |-> SumSeq(Column(of(months[i]), "Net_Cash_Flow"))]]

\* first row of a summary with the largest / smallest Total_Net_Cash_Flow
ArgMax(ps) == ps[CHOOSE i \in 1..Len(ps) :
                    /\ \A j \in 1..Len(ps) : ps[j].Total_Net_Cash_Flow <= ps[i].Total_Net_Cash_Flow
                    /\ \A j \in 1..(i - 1) : ps[j].Total_Net_Cash_Flow < ps[i].Total_Net_Cash_Flow]
ArgMin(ps) == ps[CHOOSE i \in 1..Len(ps) :
                    /\ \A j \in 1..Len(ps) : ps[j].Total_Net_Cash_Flow >= ps[i].Total_Net_Cash_Flow
                    /\ \A j \in 1..(i - 1) : ps[j].Total_Net_Cash_Flow > ps[i].Total_Net_Cash_Flow]

MinDate(rows) == CHOOSE d \in Range(Column(rows, "Date")) :
                    \A e \in Range(Column(rows, "Date")) : ~DateLess(e, d)
MaxDate(rows) == CHOOSE d \in Range(Column(rows, "Date")) :
                    \A e \in Range(Column(rows, "Date")) : ~DateLess(d, e)

\* the all-zero Insights of an empty table: EmptyDataset, no date_range
EmptyInsights ==
    [total_cash_in |-> 0, total_cash_out |-> 0, total_net_cash_flow |-> 0,
     total_projects |-> 0, positive_cash_flow_months |-> 0,
     negative_cash_flow_months |-> 0, empty_dataset |-> TRUE]

GetInsights(rows) ==
    IF rows = <<>> THEN EmptyInsights
    ELSE LET ps == GetProjectSummary(rows)
             ms == GetMonthlySummary(rows)
             cin == SumSeq(Column(rows, "Cash_In"))
             cout == SumSeq(Column(rows, "Cash_Out"))
         IN  [total_cash_in |-> cin, total_cash_out |-> cout,
              total_net_cash_flow |-> cin - cout,
              total_projects |-> Len(ps),
              most_profitable_project |-> ArgMax(ps).Project,
              least_profitable_project |-> ArgMin(ps).Project,
              date_range |-> [start |-> MinDate(rows), end |-> MaxDate(rows)],
              positive_cash_flow_months |-> Len(SelectSeq(ms, LAMBDA m : m.Net_Cash_Flow > 0)),
              negative_cash_flow_months |-> Len(SelectSeq(ms, LAMBDA m : m.Net_Cash_Flow < 0)),
              empty_dataset |-> FALSE]

-----------------------------------------------------------------------------
(* One run of the script: main -> process_uploaded_file *)

NotRendered == [status |-> "none"]

CoreIdle ==
    /\ stage = "idle"
    /\ transactions = <<>>
    /\ reader_data = <<>>
    /\ insights = EmptyInsights
    /\ project_summary = <<>>
    /\ monthly_summary = <<>>
    /\ rendered = NotRendered

PipelineIdle ==
    /\ pc = "main"
    /\ columns = <<>>
    /\ column_mapping = EmptyMapping
    /\ selection = NoSelection
    /\ project_col = None
    /\ date_col = None
    /\ cash_in_cols = <<>>
    /\ cash_out_cols = <<>>
    /\ error = "none"
    /\ result = NotReturned
    /\ data = "unset"
    /\ outcome = "running"

Init == PipelineIdle /\ CoreIdle

\* the `except Exception` at lines 401-403
OuterExcept ==
    /\ error' = "error_reading_file"
    /\ result' = NonePair
    /\ pc' = "returned"

\* main, lines 41-56 and 68-70: the file uploader
MainUpload ==
    /\ pc = "main"
    /\ UNCHANGED cvars
    /\ \E uploaded \in BOOLEAN :
         IF uploaded
         THEN /\ pc' = "get_sheets"
              /\ outcome' = outcome
         ELSE /\ pc' = "done"
              /\ outcome' = "instructions"
    /\ UNCHANGED <<columns, column_mapping, selection,
                   project_col, date_col, cash_in_cols, cash_out_cols,
                   error, result, data>>

\* process_uploaded_file, lines 280-298: temp file, sheet list, sheet selection
GetSheets ==
    /\ pc = "get_sheets"
    /\ UNCHANGED cvars
    /\ \E raised \in BOOLEAN, ss \in SheetLists :
         IF raised \/ Len(ss) = 0
         THEN OuterExcept
         ELSE /\ pc' = "read"
              /\ UNCHANGED <<error, result>>
    /\ UNCHANGED <<columns, column_mapping, selection, project_col, date_col,
                   cash_in_cols, cash_out_cols, data, outcome>>

\* lines 300-304: reader.read_excel_file()
ReadExcel ==
    /\ pc = "read"
    /\ UNCHANGED cvars
    /\ \E ok \in BOOLEAN :
         IF ~ok
         THEN /\ error' = "failed_to_read"
              /\ result' = BareNone
              /\ pc' = "returned"
              /\ columns' = columns
         ELSE /\ columns' = Columns
              /\ pc' = "analyze"
              /\ UNCHANGED <<error, result>>
    /\ UNCHANGED <<column_mapping, selection,
                   project_col, date_col, cash_in_cols, cash_out_cols,
                   data, outcome>>

\* line 305: column_mapping = reader.analyze_structure()
AnalyzeStructure ==
    /\ pc = "analyze"
    /\ UNCHANGED cvars
    /\ column_mapping' \in ScannerOutputs(columns)
    /\ pc' = "widgets"
    /\ UNCHANGED <<columns, selection, project_col,
                   date_col, cash_in_cols, cash_out_cols, error, result,
                   data, outcome>>

\* lines 329-365: the four mapping widgets
ColumnMappingInterface ==
    /\ pc = "widgets"
    /\ UNCHANGED cvars
    /\ \E sel \in Selections(columns) :
         LET options == <<None>> \o columns
             pidx == DefaultIndex(columns, column_mapping.project_columns)
             didx == DefaultIndex(columns, column_mapping.date_columns)
         IN  IF pidx < 0 \/ didx < 0
                \/ ~(Range(column_mapping.cash_in_columns) \subseteq Range(columns))
                \/ ~(Range(column_mapping.cash_out_columns) \subseteq Range(columns))
             THEN /\ OuterExcept
                  /\ UNCHANGED <<selection, project_col, date_col,
                                 cash_in_cols, cash_out_cols>>
             ELSE /\ selection' = sel
                  /\ project_col' = SelectBox(options, pidx, sel.project)
                  /\ date_col' = SelectBox(options, didx, sel.date)
                  /\ cash_in_cols' = MultiSelect(columns, column_mapping.cash_in_columns, sel.cash_in)
                  /\ cash_out_cols' = MultiSelect(columns, column_mapping.cash_out_columns, sel.cash_out)
                  /\ pc' = "validate"
                  /\ UNCHANGED <<error, result>>
    /\ UNCHANGED <<columns, column_mapping, data, outcome>>

\* validation that rejects only when both the project and the date are missing
ValidateMappingAnd ==
    /\ pc = "validate"
    /\ UNCHANGED cvars
    /\ IF Falsy(project_col) /\ Falsy(date_col)
       THEN /\ error' = "select_project_and_date"
            /\ result' = NonePair
            /\ pc' = "returned"
       ELSE IF FalsyList(cash_in_cols) /\ FalsyList(cash_out_cols)
       THEN /\ error' = "select_cash_column"
            /\ result' = NonePair
            /\ pc' = "returned"
       ELSE /\ pc' = "process"
            /\ UNCHANGED <<error, result>>
    /\ UNCHANGED <<columns, column_mapping, selection,
                   project_col, date_col, cash_in_cols, cash_out_cols,
                   data, outcome>>

\* validation that sends an incomplete mapping back to structure analysis
ValidateMappingRetry ==
    /\ pc = "validate"
    /\ UNCHANGED cvars
    /\ IF Falsy(project_col) \/ Falsy(date_col)
          \/ (FalsyList(cash_in_cols) /\ FalsyList(cash_out_cols))
       THEN /\ pc' = "analyze"
            /\ UNCHANGED <<error, result>>
       ELSE /\ pc' = "process"
            /\ UNCHANGED <<error, result>>
    /\ UNCHANGED <<columns, column_mapping, selection,
                   project_col, date_col, cash_in_cols, cash_out_cols,
                   data, outcome>>

\* lines 367-374: validation of the selected mapping
ValidateMapping ==
    /\ pc = "validate"
    /\ UNCHANGED cvars
    /\ IF Falsy(project_col) \/ Falsy(date_col)
       THEN /\ error' = "select_project_and_date"
            /\ result' = NonePair
            /\ pc' = "returned"
       ELSE IF FalsyList(cash_in_cols) /\ FalsyList(cash_out_cols)
       THEN /\ error' = "select_cash_column"
            /\ result' = NonePair
            /\ pc' = "returned"
       ELSE /\ pc' = "process"
            /\ UNCHANGED <<error, result>>
    /\ UNCHANGED <<columns, column_mapping, selection,
                   project_col, date_col, cash_in_cols, cash_out_cols,
                   data, outcome>>

\* lines 376-399: prepare_data_with_mapping, clean_and_prepare_data
ProcessData ==
    /\ pc = "process"
    /\ UNCHANGED cvars
    /\ \E normalized \in BOOLEAN, cleaned_ok \in BOOLEAN :
         IF \E i \in 1..Len(PrepareCallNames) : ~NameBound(PrepareCallNames[i])
         THEN /\ error' = "NameError"
              /\ result' = NonePair
         ELSE IF ~normalized
         THEN /\ error' = "normalizer_exception"
              /\ result' = NonePair
         ELSE IF ~cleaned_ok
         THEN /\ error' = "cleaner_returned_none"
              /\ result' = NonePair
         ELSE /\ error' = error
              /\ result' = DataPair
    /\ pc' = "returned"
    /\ UNCHANGED <<columns, column_mapping, selection,
                   project_col, date_col, cash_in_cols, cash_out_cols,
                   data, outcome>>

\* main, lines 56-66: unpack the result, display the dashboard or the error;
\* the frame of process_uploaded_file is gone
MainDispatch ==
    /\ pc = "returned"
    /\ UNCHANGED cvars
    /\ IF ~result.tuple
       THEN /\ outcome' = "uncaught_TypeError"
            /\ data' = data
       ELSE /\ data' = result.data
            /\ outcome' = IF result.data # None THEN "dashboard" ELSE "error_message"
    /\ pc' = "done"
    /\ columns' = <<>>
    /\ column_mapping' = EmptyMapping
    /\ project_col' = None
    /\ date_col' = None
    /\ cash_in_cols' = <<>>
    /\ cash_out_cols' = <<>>
    /\ UNCHANGED <<selection, error, result>>

Next ==
    \/ MainUpload
    \/ GetSheets
    \/ ReadExcel
    \/ AnalyzeStructure
    \/ ColumnMappingInterface
    \/ ValidateMapping
    \/ ProcessData
    \/ MainDispatch

Spec == Init /\ [][Next]_vars

-----------------------------------------------------------------------------
(* The dashboard on a normalized table: clean_and_prepare_data, then        *)
(* display_dashboard(reader, data) with reader.data = data                  *)

\* dict.get(k, default)
DictGet(d, k, default) == IF k \in DOMAIN d THEN d[k] ELSE default

EmptyDict == <<>>

\* lines 84-111: the four key metrics
KeyMetrics(ins) ==
    LET net_flow == DictGet(ins, "total_net_cash_flow", 0)
    IN  [total_cash_in |-> DictGet(ins, "total_cash_in", 0),
         total_cash_out |-> DictGet(ins, "total_cash_out", 0),
         net_flow |-> net_flow,
         delta |-> IF net_flow > 0 THEN "Positive" ELSE "Negative",
         total_projects |-> DictGet(ins, "total_projects", 0)]

\* lines 119-130: the cumulative line chart, one point per row of data
CumulativeChart(rows) ==
    [i \in 1..Len(rows) |-> [x |-> rows[i].Date, y |-> rows[i].Cumulative_Cash_Flow,
                             color |-> rows[i].Project]]

\* lines 219-220: the pie chart's positive and negative months
MonthSigns(ms) ==
    [positive_months |-> Len(SelectSeq(ms, LAMBDA m : m.Net_Cash_Flow > 0)),
     negative_months |-> Len(SelectSeq(ms, LAMBDA m : m.Net_Cash_Flow < 0))]

\* the insights boxes with insights['date_range'] subscripted: KeyError
\* when the key is missing
InsightsSectionSubscript(ins) ==
    [raised |-> "date_range" \notin DOMAIN ins,
     most_profitable |-> DictGet(ins, "most_profitable_project", "N/A"),
     least_profitable |-> DictGet(ins, "least_profitable_project", "N/A"),
     period_start |-> DictGet(DictGet(ins, "date_range", EmptyDict), "start", "N/A"),
     period_end |-> DictGet(DictGet(ins, "date_range", EmptyDict), "end", "N/A"),
     positive_periods |-> DictGet(ins, "positive_cash_flow_months", 0),
     negative_periods |-> DictGet(ins, "negative_cash_flow_months", 0),
     overall |-> IF DictGet(ins, "total_net_cash_flow", 0) > 0
                 THEN "Profitable" ELSE "Loss-making"]

\* lines 249-276: the key insights boxes
InsightsSection(ins) ==
    [raised |-> FALSE,
     most_profitable |-> DictGet(ins, "most_profitable_project", "N/A"),
     least_profitable |-> DictGet(ins, "least_profitable_project", "N/A"),
     period_start |-> DictGet(DictGet(ins, "date_range", EmptyDict), "start", "N/A"),
     period_end |-> DictGet(DictGet(ins, "date_range", EmptyDict), "end", "N/A"),
     positive_periods |-> DictGet(ins, "positive_cash_flow_months", 0),
     negative_periods |-> DictGet(ins, "negative_cash_flow_months", 0),
     overall |-> IF DictGet(ins, "total_net_cash_flow", 0) > 0
                 THEN "Profitable" ELSE "Loss-making"]

CoreInit ==
    /\ PipelineIdle
    /\ stage = "normalized"
    /\ transactions \in TransactionTables
    /\ reader_data = <<>>
    /\ insights = EmptyInsights
    /\ project_summary = <<>>
    /\ monthly_summary = <<>>
    /\ rendered = NotRendered

\* process_uploaded_file line 383 and main lines 60-61:
\* reader.data = reader.clean_and_prepare_data(processed_df)
CleanAndPrepare ==
    /\ stage = "normalized"
    /\ reader_data' = CleanAndPrepareData(transactions)
    /\ stage' = "cleaned"
    /\ UNCHANGED <<transactions, insights, project_summary, monthly_summary, rendered>>
    /\ UNCHANGED pvars

\* display_dashboard, lines 75-78
LoadSummaries ==
    /\ stage = "cleaned"
    /\ insights' = GetInsights(reader_data)
    /\ project_summary' = GetProjectSummary(reader_data)
    /\ monthly_summary' = GetMonthlySummary(reader_data)
    /\ stage' = "summarized"
    /\ UNCHANGED <<transactions, reader_data, rendered>>
    /\ UNCHANGED pvars

\* display_dashboard, lines 80-276
RenderDashboard ==
    /\ stage = "summarized"
    /\ LET section == InsightsSection(insights)
       IN  rendered' = [status |-> IF section.raised THEN "raised" ELSE "completed",
                        metrics |-> KeyMetrics(insights),
                        chart |-> CumulativeChart(reader_data),
                        pie |-> MonthSigns(monthly_summary),
                        section |-> section]
    /\ stage' = "rendered"
    /\ UNCHANGED <<transactions, reader_data, insights, project_summary, monthly_summary>>
    /\ UNCHANGED pvars

CoreNext ==
    \/ CleanAndPrepare
    \/ LoadSummaries
    \/ RenderDashboard

CoreSpec == CoreInit /\ [][CoreNext]_vars

-----------------------------------------------------------------------------
(* Properties *)

\* the mapping held by process_uploaded_file's locals is complete
MappingComplete ==
    /\ project_col \in Range(columns)
    /\ date_col \in Range(columns)
    /\ (Range(cash_in_cols) # {} \/ Range(cash_out_cols) # {})
    /\ Range(cash_in_cols) \cup Range(cash_out_cols) \subseteq Range(columns)

MappingIncompleteErrors == {"select_project_and_date", "select_cash_column"}
UnreadableSourceErrors == {"failed_to_read", "error_reading_file"}

\* C1: a mapping whose project or date role is unresolved, or whose cash-in
\* and cash-out lists are both empty, makes process_uploaded_file return
\* (None, None) with a mapping-incomplete message before the normalizer call
\* is reached; every mapping that reaches the normalizer call has one project
\* header, one date header and at least one cash-in or cash-out header.
MappingValidation ==
    /\ pc = "process" => MappingComplete
    /\ (pc = "returned" /\ error \notin UnreadableSourceErrors /\ ~MappingComplete)
          => (error \in MappingIncompleteErrors /\ result = NonePair)
    /\ error \in MappingIncompleteErrors => (pc \in {"returned", "done"} /\ result = NonePair)

\* C1 witness: the scanner proposed a project and a date, the user cleared
\* the cash lists, and the upload was rejected as incomplete
MappingValidationWitness ==
    /\ pc = "returned"
    /\ error = "select_cash_column"
    /\ project_col \in Range(columns)
    /\ date_col \in Range(columns)

TopCandidate(candidates) == IF candidates = <<>> THEN None ELSE candidates[1]

\* C2: the project and the date passed on to the normalizer are the user's
\* selection whenever the user made one, whatever the scanner ranked first;
\* the scanner's top candidate is used only for a role the user left alone.
MappingOverridePrecedence ==
    pc \in {"validate", "process"} =>
        /\ date_col = IF selection.date.touched THEN selection.date.value
                      ELSE TopCandidate(column_mapping.date_columns)
        /\ project_col = IF selection.project.touched THEN selection.project.value
                         ELSE TopCandidate(column_mapping.project_columns)

\* C2 witness: the user picked a date header other than the scanner's top
\* date candidate, and that mapping reached the normalizer call
MappingOverrideWitness ==
    /\ pc = "process"
    /\ selection.date.touched
    /\ column_mapping.date_columns # <<>>
    /\ date_col # column_mapping.date_columns[1]
    /\ date_col = selection.date.value

\* C7: a header the scanner lists as both a cash-in and a cash-out candidate
\* is in the finalized cash-in (cash-out) list only if the user picked it
\* for that role.
AmbiguousCashNeverSilent ==
    pc = "process" =>
        \A h \in Range(column_mapping.cash_in_columns)
                 \cap Range(column_mapping.cash_out_columns) :
            /\ h \in Range(cash_in_cols) =>
                  (selection.cash_in.touched /\ h \in Range(selection.cash_in.value))
            /\ h \in Range(cash_out_cols) =>
                  (selection.cash_out.touched /\ h \in Range(selection.cash_out.value))

\* position of a program counter value in the order of the pipeline:
\* upload, workbook access, structure analysis ("analyze"), mapping
\* finalization and validation ("widgets", "validate"), normalization and
\* cleaning ("process"), return, aggregation and display ("done")
PcOrder == <<"main", "get_sheets", "read", "analyze", "widgets", "validate",
             "process", "returned", "done">>
PcRank(p) == ListIndex(PcOrder, p)

StrictlyForward == PcRank(pc') > PcRank(pc)

FinalizedMapping == <<columns, column_mapping, project_col, date_col,
                      cash_in_cols, cash_out_cols>>

MappingFrozen == pc \in {"validate", "process"} => FinalizedMapping' = FinalizedMapping

HappyPathDelivers ==
    (pc = "returned" /\ MappingComplete
        /\ error \notin {"normalizer_exception", "cleaner_returned_none"})
       => result = DataPair

\* C10: process_uploaded_file always returns a pair, and main never fails
\* while unpacking it.
UniformFailureResult ==
    /\ pc \in {"returned", "done"} /\ result # NotReturned => result.tuple
    /\ outcome # "uncaught_TypeError"

\* C6: an upload is only abandoned because the source is unreadable or the
\* mapping is incomplete; a row that cannot be coerced never aborts it.
AbortsOnlyOnStructuralFailure ==
    (pc = "returned" /\ result.data = None)
       => error \in UnreadableSourceErrors \cup MappingIncompleteErrors

RECURSIVE PrefixNet(_, _)
PrefixNet(rows, i) ==
    IF i = 0 THEN 0 ELSE PrefixNet(rows, i - 1) + (rows[i].Cash_In - rows[i].Cash_Out)

\* C3: the cleaned table is ordered by Date ascending with ties in original
\* row order, and each row's Cumulative_Cash_Flow is the sum of
\* Cash_In - Cash_Out over all rows up to it, whatever their project.
CumulativeCorrectness ==
    stage # "normalized" =>
        /\ \A i \in 1..Len(reader_data) :
              /\ reader_data[i].Net_Cash_Flow = reader_data[i].Cash_In - reader_data[i].Cash_Out
              /\ reader_data[i].Cumulative_Cash_Flow = PrefixNet(reader_data, i)
        /\ \A i, j \in 1..Len(reader_data) :
              i < j => \/ DateLess(reader_data[i].Date, reader_data[j].Date)
                       \/ /\ reader_data[i].Date = reader_data[j].Date
                          /\ reader_data[i].Index < reader_data[j].Index

\* C3 witness: a cleaned table of two projects whose rows were reordered by
\* the sort and which holds two rows of the same date
CumulativeCorrectnessWitness ==
    /\ stage = "cleaned"
    /\ \E i, j \in 1..Len(reader_data) :
          /\ i < j
          /\ reader_data[i].Index > reader_data[j].Index
          /\ reader_data[i].Project # reader_data[j].Project
          /\ reader_data[j].Cumulative_Cash_Flow # reader_data[j].Net_Cash_Flow
    /\ \E i, j \in 1..Len(reader_data) :
          i < j /\ reader_data[i].Date = reader_data[j].Date

\* C4: the project summary's Total_Net_Cash_Flow, the monthly summary's
\* Net_Cash_Flow and the cleaned rows' Net_Cash_Flow all sum to
\* insights.total_net_cash_flow.
SummaryConservation ==
    stage \in {"summarized", "rendered"} =>
        /\ SumSeq(Column(project_summary, "Total_Net_Cash_Flow")) = insights.total_net_cash_flow
        /\ SumSeq(Column(monthly_summary, "Net_Cash_Flow")) = insights.total_net_cash_flow
        /\ PrefixNet(reader_data, Len(reader_data)) = insights.total_net_cash_flow

\* C4 witness: summaries of two projects over two months, one project with
\* several rows, with a non-zero total
SummaryConservationWitness ==
    /\ stage = "summarized"
    /\ Len(project_summary) = 2
    /\ Len(monthly_summary) = 2
    /\ Len(reader_data) > 2
    /\ insights.total_net_cash_flow # 0

====
